---- MODULE Spec2Model ----
(***************************************************************************)
(* yata: the identity reconciliation path of the Go server.                *)
(*                                                                         *)
(*  - ClerkWebhookHandler (ai_guides/ARCHITECTURE_GUIDE.md, Part 3): one   *)
(*    SQL statement per delivery against the users table (Part 4).         *)
(*  - GetOrCreateUser (Part 2): lookup, provider fetch, insert; three      *)
(*    separate steps, so concurrent callers interleave.                    *)
(*  - ClerkAuthMiddleware / RequireOrg / GetMeHandler                      *)
(*    (apps/server/internal): the Gin handler chain of one request.        *)
(*  - database.Connect and main (apps/server): the start of the server.    *)
(*  - the clerkMiddleware callback of apps/client/proxy.ts.                 *)
(*                                                                         *)
(* Spec     : the users table under webhook deliveries and their answers.  *)
(* SpecJit  : the users table under webhook deliveries and JIT callers.    *)
(* SpecGate : one request walking its Gin handler chain, while webhook     *)
(*            deliveries fill the users table.                             *)
(* SpecCancel  : GetOrCreateUser callers whose clients may disconnect.      *)
(* SpecProxy   : a browser's navigations through the client's proxy.ts.    *)
(* SpecConnect : main from its start to router.Run, through Connect.       *)
(***************************************************************************)
EXTENDS Naturals, Integers, Sequences, FiniteSets, TLC

(* ------------------------------ bounds --------------------------------- *)

\* Largest value of the database clock NOW().
MaxClock == 2

\* Number of webhook deliveries the provider makes in one run.
MaxDeliveries == 3

\* Number of concurrent GetOrCreateUser callers.
NumCallers == 2

\* Redirects a browser follows in a row before it gives up.
MaxRedirects == 3

\* Times the server process is started again after it has exited.
MaxRestarts == 2

(* --------------------------- program constants ------------------------- *)

StatusOK == 200
StatusBadRequest == 400
StatusUnauthorized == 401
StatusForbidden == 403
StatusInternalServerError == 500

\* SQL NULL in a TIMESTAMPTZ column (deleted_at before any delete).
NULL == -1

\* A nil *string of the Clerk SDK's User struct.
NilStr == "<nil>"

(* ------------------------------ the data ------------------------------- *)

Subjects == {"u1", "u2"}

\* An entry of ClerkUserData.EmailAddresses.
Addr(id, email) == [id |-> id, email_address |-> email]

\* A provider profile, in the shape of ClerkUserData.
Profile(id, first, last, img, primary, addrs) ==
    [id |-> id, first_name |-> first, last_name |-> last, image_url |-> img,
     primary_email_address_id |-> primary, email_addresses |-> addrs]

\* The zero value of ClerkUserData: what json.Unmarshal leaves behind when it
\* fails and its error is dropped.
ZeroUserData == Profile("", "", "", "", "", <<>>)

ProfileA == Profile("u1", "Ann", "Lee", "img_a", "em_2",
                    <<Addr("em_1", "old@x.com"), Addr("em_2", "a@x.com")>>)
ProfileB == Profile("u1", "Bea", "Ray", "img_b", "em_3",
                    <<Addr("em_3", "b@x.com")>>)
ProfileC == Profile("u2", "Cy", "Orr", "img_c", "em_4",
                    <<Addr("em_4", "c@x.com")>>)
\* The primary id names none of the addresses.
ProfileD == Profile("u2", "Cy", "Orr", "img_c", "em_9",
                    <<Addr("em_5", "d@x.com")>>)

\* No primary address is set: PrimaryEmailAddressID is nil.
ProfileE == Profile("u2", "Cy", "Orr", "img_c", NilStr,
                    <<Addr("em_5", "d@x.com")>>)

\* What the provider may hold for a subject at the time it is asked.
ProviderProfiles(s) ==
    IF s = "u1" THEN {ProfileA, ProfileB} ELSE {ProfileC, ProfileD, ProfileE}

\* The provider's events. An event id stands for one (eventId, payload): the body
\* of a redelivery is the body of the first delivery.
EventIds == {"e1", "e2", "e3", "e4", "e5", "e6", "e7", "e8"}

Envelope(jsonOk, type, dataOk, data) ==
    [jsonOk |-> jsonOk, type |-> type, dataOk |-> dataOk, data |-> data]

EventOf(e) ==
    CASE e = "e1" -> Envelope(TRUE, "user.created", TRUE, ProfileA)
      [] e = "e2" -> Envelope(TRUE, "user.updated", TRUE, ProfileB)
      [] e = "e3" -> Envelope(TRUE, "user.deleted", TRUE, ProfileA)
      [] e = "e4" -> Envelope(TRUE, "user.created", TRUE, ProfileD)
      [] e = "e5" -> Envelope(TRUE, "user.created", FALSE, ProfileA)
      [] e = "e6" -> Envelope(TRUE, "session.created", TRUE, ProfileA)
      [] e = "e8" -> Envelope(TRUE, "user.created", TRUE, ProfileB)
      [] OTHER    -> Envelope(FALSE, "user.created", TRUE, ProfileA)

(* --------------------------- the users table --------------------------- *)

VARIABLES
    users,      \* the users table: a sequence of rows, in insertion order
    now,        \* the database clock, NOW()
    nDeliv,     \* webhook deliveries handled so far
    resp,       \* the last webhook delivery and its answer
    seen,       \* event ids already answered 200
    applied,    \* event ids whose delivery has changed the table
    inputs      \* per subject, the mutable-field triples some writer has submitted

engineVars == <<users, now, nDeliv, resp, seen, applied, inputs>>

Row(cid, email, name, avatar, t) ==
    [clerk_id |-> cid, email |-> email, name |-> name, avatar_url |-> avatar,
     created_at |-> t, updated_at |-> t, deleted_at |-> NULL]

RowsOf(tbl, cid) == {i \in DOMAIN tbl : tbl[i].clerk_id = cid}

Mutable(r) == <<r.email, r.name, r.avatar_url>>

\* The INSERT without its ON CONFLICT clause, on a column that is not UNIQUE.
InsertAlways(tbl, cid, email, name, avatar, t) ==
    Append(tbl, Row(cid, email, name, avatar, t))

\* INSERT INTO users (clerk_id, email, name, avatar_url) VALUES (...)
\* ON CONFLICT (clerk_id) DO NOTHING; created_at and updated_at DEFAULT NOW().
InsertDoNothing(tbl, cid, email, name, avatar, t) ==
    IF RowsOf(tbl, cid) # {} THEN tbl
    ELSE Append(tbl, Row(cid, email, name, avatar, t))

\* The UPDATE without its WHERE clause.
UpdateAllUsers(tbl, cid, email, name, avatar, t) ==
    [i \in DOMAIN tbl |->
        [tbl[i] EXCEPT !.email = email, !.name = name,
                       !.avatar_url = avatar, !.updated_at = t]]

\* The UPDATE with avatar_url missing from its SET list.
UpdateUserNoAvatar(tbl, cid, email, name, avatar, t) ==
    [i \in DOMAIN tbl |->
        IF tbl[i].clerk_id = cid
        THEN [tbl[i] EXCEPT !.email = email, !.name = name, !.updated_at = t]
        ELSE tbl[i]]

\* UPDATE users SET email, name, avatar_url, updated_at = NOW() WHERE clerk_id = $4
UpdateUser(tbl, cid, email, name, avatar, t) ==
    [i \in DOMAIN tbl |->
        IF tbl[i].clerk_id = cid
        THEN [tbl[i] EXCEPT !.email = email, !.name = name,
                            !.avatar_url = avatar, !.updated_at = t]
        ELSE tbl[i]]

\* The delete with AND deleted_at IS NULL added to its WHERE clause.
SoftDeleteOnce(tbl, cid, t) ==
    [i \in DOMAIN tbl |->
        IF tbl[i].clerk_id = cid /\ tbl[i].deleted_at = NULL
        THEN [tbl[i] EXCEPT !.deleted_at = t] ELSE tbl[i]]

\* A delete that inserts a tombstoned row when the subject has none.
SoftDeleteOrTombstone(tbl, cid, t) ==
    IF RowsOf(tbl, cid) = {}
    THEN Append(tbl, [Row(cid, "", "", "", t) EXCEPT !.deleted_at = t])
    ELSE [i \in DOMAIN tbl |->
            IF tbl[i].clerk_id = cid THEN [tbl[i] EXCEPT !.deleted_at = t] ELSE tbl[i]]

\* UPDATE users SET deleted_at = NOW() WHERE clerk_id = $1
SoftDelete(tbl, cid, t) ==
    [i \in DOMAIN tbl |->
        IF tbl[i].clerk_id = cid THEN [tbl[i] EXCEPT !.deleted_at = t] ELSE tbl[i]]

(* ---------------------------- webhook ingress -------------------------- *)

RECURSIVE FirstMatch(_, _, _)
\* The loop of getPrimaryEmail: the first address whose id is the primary id.
FirstMatch(addrs, primary, i) ==
    IF i > Len(addrs) THEN 0
    ELSE IF addrs[i].id = primary THEN i
    ELSE FirstMatch(addrs, primary, i + 1)

getPrimaryEmail(u) ==
    LET k == FirstMatch(u.email_addresses, u.primary_email_address_id, 1)
    IN  IF k # 0 THEN u.email_addresses[k].email_address
        ELSE IF Len(u.email_addresses) > 0 THEN u.email_addresses[1].email_address
        ELSE ""

\* json.Unmarshal(event.Data, &userData) with its error dropped.
DecodeUserData(env) == IF env.dataOk THEN env.data ELSE ZeroUserData

\* userData.FirstName + " " + userData.LastName
WebhookName(u) == u.first_name \o " " \o u.last_name

\* A delivery: the event it carries and what is wrong with it, if anything. The
\* handler returns at the first check that fails, so one fault per delivery
\* reaches each of its returns.
Faults == {"none", "body", "secret", "sig", "stale", "db"}

Delivery(e, fault) == [evt |-> e, fault |-> fault]

\* io.ReadAll(c.Request.Body) succeeds.
BodyOk(d) == d.fault # "body"

\* svix.NewWebhook(webhookSecret) accepts the configured secret.
SecretOk(d) == d.fault # "secret"

\* The svix-signature header is a signature of the raw body under the secret.
SigOk(d) == d.fault # "sig"

\* The svix-timestamp header is within svix's tolerance of the server's time.
TsFresh(d) == d.fault # "stale"

\* pool.Exec returns no error.
DbOk(d) == d.fault # "db"

\* Verify with the signature comparison left out: only the timestamp is checked.
VerifyTimestampOnly(d) == TsFresh(d)

\* wh.Verify(body, headers): svix rejects a bad signature and a timestamp
\* outside its tolerance alike, with an error.
Verify(d) == SigOk(d) /\ TsFresh(d)

\* The switch on event.Type: the table after the statement of the event's case.
ApplyEvent(tbl, env, t) ==
    LET u == DecodeUserData(env)
    IN  CASE env.type = "user.created" ->
                InsertDoNothing(tbl, u.id, getPrimaryEmail(u), WebhookName(u), u.image_url, t)
          [] env.type = "user.updated" ->
                UpdateUser(tbl, u.id, getPrimaryEmail(u), WebhookName(u), u.image_url, t)
          [] env.type = "user.deleted" ->
                SoftDelete(tbl, u.id, t)
          [] OTHER -> tbl

\* The handler without its check of err after the switch.
WebhookStatusErrUnchecked(d, env) ==
    IF ~BodyOk(d) THEN StatusBadRequest
    ELSE IF ~SecretOk(d) THEN StatusInternalServerError
    ELSE IF ~Verify(d) THEN StatusUnauthorized
    ELSE IF ~env.jsonOk THEN StatusBadRequest
    ELSE StatusOK

\* The status ClerkWebhookHandler answers, from its early returns in order.
WebhookStatus(d, env) ==
    IF ~BodyOk(d) THEN StatusBadRequest
    ELSE IF ~SecretOk(d) THEN StatusInternalServerError
    ELSE IF ~Verify(d) THEN StatusUnauthorized
    ELSE IF ~env.jsonOk THEN StatusBadRequest
    ELSE IF ~DbOk(d) /\ env.type \in {"user.created", "user.updated", "user.deleted"}
         THEN StatusInternalServerError
    ELSE StatusOK

\* Whether the handler gets as far as a successful pool.Exec.
WebhookExecs(d, env) ==
    BodyOk(d) /\ SecretOk(d) /\ Verify(d) /\ env.jsonOk /\ DbOk(d)

NoResp == [d |-> Delivery("none", "none"),
           status |-> 0, wrote |-> FALSE, dup |-> FALSE, redo |-> FALSE]

\* The inputs a writer submits for a subject, remembered for the race claims.
Submit(inp, cid, triple) ==
    IF cid \in DOMAIN inp THEN [inp EXCEPT ![cid] = @ \cup {triple}] ELSE inp

\* The handler's effect on the database: at most one statement, executed only
\* when every check before it passed and pool.Exec succeeded.
ClerkWebhookHandler(d) ==
    LET env == EventOf(d.evt)
        u   == DecodeUserData(env)
    IN  /\ nDeliv' = nDeliv + 1
        /\ users' = IF WebhookExecs(d, env) THEN ApplyEvent(users, env, now) ELSE users
        /\ inputs' = IF WebhookExecs(d, env) /\ env.type \in {"user.created", "user.updated"}
                     THEN Submit(inputs, u.id,
                                 <<getPrimaryEmail(u), WebhookName(u), u.image_url>>)
                     ELSE inputs
        /\ UNCHANGED now

\* What the provider observes of the delivery: the status answered, whether the
\* table changed, whether the same event had been answered 200 before (dup) and
\* whether an earlier delivery of it had changed the table (redo).
Answer(d) ==
    LET st == WebhookStatus(d, EventOf(d.evt))
    IN  /\ resp' = [d |-> d, status |-> st, wrote |-> (users' # users),
                    dup |-> (d.evt \in seen), redo |-> (d.evt \in applied)]
        /\ seen' = IF st = StatusOK THEN seen \cup {d.evt} ELSE seen
        /\ applied' = IF users' # users THEN applied \cup {d.evt} ELSE applied

(* ------------------------------ JIT resolver --------------------------- *)

VARIABLES
    jit         \* per caller of GetOrCreateUser: where it is and what it holds

Callers == 1..NumCallers

\* subject is clerkUserId, profile is clerkUser, newUser is newUser; cancelled
\* says whether c.Request.Context() has been cancelled.
Idle == [pc |-> "idle", subject |-> "", profile |-> ZeroUserData,
         newUser |-> <<>>, result |-> "none", cancelled |-> FALSE]

\* GetUserByClerkID(ctx, pool, clerkUserId): the active row of the subject, if any.
GetUserByClerkID(tbl, cid) ==
    {i \in RowsOf(tbl, cid) : tbl[i].deleted_at = NULL}

\* fullName(clerkUser.FirstName, clerkUser.LastName)
fullName(first, last) == first \o " " \o last

\* safeString(clerkUser.ImageURL)
safeString(p) == IF p = NilStr THEN "" ELSE p

\* The loop of GetOrCreateUser over clerkUser.EmailAddresses: the address whose
\* id is the primary id, and "" when there is none.
JitEmail(u) ==
    LET k == FirstMatch(u.email_addresses, u.primary_email_address_id, 1)
    IN  IF k # 0 THEN u.email_addresses[k].email_address ELSE ""

\* addr.ID == *clerkUser.PrimaryEmailAddressID dereferences a nil pointer on the
\* first turn of the loop when the profile has addresses and no primary id.
JitPanics(u) == u.primary_email_address_id = NilStr /\ Len(u.email_addresses) > 0

\* newUser := &User{ClerkID, Email, Name, AvatarURL}
NewUser(cid, u) ==
    <<cid, JitEmail(u), fullName(u.first_name, u.last_name), safeString(u.image_url)>>

\* CreateUser(ctx, pool, newUser): the Reconciler's upsert. A missing row is
\* inserted; an existing one has its mutable fields overwritten, updated_at
\* set and deleted_at cleared.
CreateUser(tbl, cid, email, name, avatar, t) ==
    IF RowsOf(tbl, cid) = {} THEN Append(tbl, Row(cid, email, name, avatar, t))
    ELSE [i \in DOMAIN tbl |->
            IF tbl[i].clerk_id = cid
            THEN [tbl[i] EXCEPT !.email = email, !.name = name, !.avatar_url = avatar,
                                !.updated_at = t, !.deleted_at = NULL]
            ELSE tbl[i]]

\* user, err := GetUserByClerkID(...); if err == nil { return user, nil }
\* Any error, no row or a failed query alike, sends the caller on to the fetch.
JitLookup(c, s, dbOk) ==
    /\ jit[c].pc = "idle"
    /\ jit' = [jit EXCEPT ![c] =
                 IF dbOk /\ GetUserByClerkID(users, s) # {}
                 THEN [Idle EXCEPT !.pc = "done", !.subject = s, !.result = "found"]
                 ELSE [Idle EXCEPT !.pc = "fetch", !.subject = s]]
    /\ UNCHANGED engineVars

\* clerkUser, err := clerkuser.Get(ctx, clerkUserId); if err != nil { return nil, err }
\* followed by the primary-email loop, which may panic, and the construction of
\* newUser.
JitFetchOk(c, u) ==
    /\ jit[c].pc = "fetch"
    /\ ~jit[c].cancelled
    /\ u \in ProviderProfiles(jit[c].subject)
    /\ jit' = IF JitPanics(u)
              THEN [jit EXCEPT ![c].pc = "done", ![c].profile = u, ![c].result = "panic"]
              ELSE [jit EXCEPT ![c].pc = "create", ![c].profile = u,
                               ![c].newUser = NewUser(jit[c].subject, u)]
    /\ UNCHANGED engineVars

\* The call with err of clerkuser.Get unchecked: it goes on with an empty profile.
JitFetchErrUnchecked(c) ==
    /\ jit[c].pc = "fetch"
    /\ jit' = [jit EXCEPT ![c].pc = "create",
                          ![c].newUser = NewUser(jit[c].subject, ZeroUserData)]
    /\ UNCHANGED engineVars

JitFetchErr(c) ==
    /\ jit[c].pc = "fetch"
    /\ jit' = [jit EXCEPT ![c].pc = "done", ![c].result = "fetch_error"]
    /\ UNCHANGED engineVars

\* How the request that called GetOrCreateUser is answered: it proceeds with the
\* record, is unauthenticated when the provider does not know the subject, and
\* fails when the store does or the call panicked.
RequestStatus(result) ==
    CASE result \in {"found", "created"} -> StatusOK
      [] result = "fetch_error"          -> StatusUnauthorized
      [] OTHER                           -> StatusInternalServerError

\* err = CreateUser(ctx, pool, newUser); if err != nil { return nil, err }
\* return newUser, nil
JitCreate(c, dbOk) ==
    LET n == jit[c].newUser
    IN  /\ jit[c].pc = "create"
        /\ dbOk => ~jit[c].cancelled
        /\ jit' = [jit EXCEPT ![c].pc = "done",
                              ![c].result = IF dbOk THEN "created" ELSE "create_error"]
        /\ users' = IF dbOk THEN CreateUser(users, n[1], n[2], n[3], n[4], now) ELSE users
        /\ inputs' = IF dbOk THEN Submit(inputs, n[1], <<n[2], n[3], n[4]>>) ELSE inputs
        /\ UNCHANGED <<now, nDeliv, resp, seen, applied>>

\* The client of the request disconnects while the call is in flight: net/http
\* cancels c.Request.Context(), the context GetOrCreateUser hands to
\* clerkuser.Get and to CreateUser, which then return the context's error.
JitCancel(c) ==
    /\ jit[c].pc \in {"fetch", "create"}
    /\ ~jit[c].cancelled
    /\ jit' = [jit EXCEPT ![c].cancelled = TRUE]
    /\ UNCHANGED engineVars

(* ----------------------------- request gate -------------------------- *)

VARIABLES
    gin         \* the gin.Context of the request in hand, and its response writer

\* The routes of the /api group: /me as cmd/api/main.go registers it, and an
\* org-scoped route as the guide wires it behind RequireOrg.
Routes == {"/api/me", "/api/orgs/:slug/tickets"}

\* The org group with RequireOrg registered after its route handler.
ChainHandlerFirst(route) ==
    IF route = "/api/me" THEN <<"ClerkAuthMiddleware", "GetMeHandler">>
    ELSE <<"ClerkAuthMiddleware", "listTicketsHandler", "RequireOrg">>

\* The handlers gin runs for a route, in order.
Chain(route) ==
    IF route = "/api/me" THEN <<"ClerkAuthMiddleware", "GetMeHandler">>
    ELSE <<"ClerkAuthMiddleware", "RequireOrg", "listTicketsHandler">>

\* The Authorization header of a request: whether it is there, whether the JWT
\* decodes, whether its signature verifies, whether its exp is in the past, and
\* the sub and org_id claims it carries.
Tokens ==
    [present : BOOLEAN, wellFormed : BOOLEAN, sigOk : BOOLEAN, expired : BOOLEAN,
     sub : Subjects, org : {"", "org_1"}]

\* clerkhttp.RequireHeaderAuthorization() lets the request through, with the
\* session claims in its context, only for a token that decodes and verifies
\* (signature and expiry).
Accepts(tok) == tok.present /\ tok.wellFormed /\ tok.sigOk /\ ~tok.expired

\* The status the Clerk middleware writes when it does not let the request
\* through: 401 when verification fails, 403 when no claims could be read.
ClerkRejectStatus(tok) ==
    IF tok.present /\ tok.wellFormed THEN StatusUnauthorized ELSE StatusForbidden

\* gin's responseWriter.WriteHeader: the status is only noted, and not even that
\* once the header is out.
WriteHeader(c, code) == IF c.written THEN c ELSE [c EXCEPT !.status = code]

\* gin's c.JSON(code, obj): WriteHeader(code), then the body, which sends the header.
JSON(c, code) == [WriteHeader(c, code) EXCEPT !.written = TRUE]

\* gin's c.Abort(): no later handler of the chain runs.
Abort(c) == [c EXCEPT !.aborted = TRUE]

\* The handler has run; gin's loop moves on to the next one.
Ran(c, h) == [c EXCEPT !.ran = Append(@, h), !.index = @ + 1]

\* ClerkAuthMiddleware: on acceptance c.Request = r (the claims) and c.Next();
\* on rejection Clerk's handler writes its status and returns, and the
\* closure returns with it, without c.Abort().
ClerkAuthMiddleware(c) ==
    IF Accepts(c.token) THEN [c EXCEPT !.claims = TRUE]
    ELSE WriteHeader(c, ClerkRejectStatus(c.token))

\* RequireOrg with !ok left out of its condition: a context without claims passes.
RequireOrgClaimsOnly(c) ==
    IF c.claims /\ c.token.org = "" THEN JSON(Abort(c), StatusForbidden) ELSE c

\* RequireOrg with c.JSON in place of c.AbortWithStatusJSON.
RequireOrgNoAbort(c) ==
    IF ~c.claims \/ c.token.org = "" THEN JSON(c, StatusForbidden) ELSE c

\* RequireOrg: 403 and abort unless the claims carry an active organization.
RequireOrg(c) ==
    IF ~c.claims \/ c.token.org = "" THEN JSON(Abort(c), StatusForbidden) ELSE c

\* GetMeHandler without its check of ok.
GetMeHandlerUnchecked(c) == JSON(c, StatusOK)

\* GetMeHandler: 401 without claims in the context, else 200 with the claims.
GetMeHandler(c) ==
    IF ~c.claims THEN JSON(c, StatusUnauthorized) ELSE JSON(c, StatusOK)

\* listTicketsHandler of the guide: the same check on the claims, then the part
\* that works on the pool it was given, for the subject and organization of the
\* claims. The handlers are the only code of a chain that holds the pool.
listTicketsHandler(c) ==
    IF ~c.claims THEN JSON(c, StatusUnauthorized)
    ELSE JSON([c EXCEPT !.queried = TRUE], StatusOK)

Handle(h, c) ==
    CASE h = "ClerkAuthMiddleware" -> ClerkAuthMiddleware(c)
      [] h = "RequireOrg"          -> RequireOrg(c)
      [] h = "GetMeHandler"        -> GetMeHandler(c)
      [] OTHER                     -> listTicketsHandler(c)

NoRequest ==
    [pc |-> "idle", route |-> "/api/me",
     token |-> [present |-> FALSE, wellFormed |-> FALSE, sigOk |-> FALSE,
                expired |-> FALSE, sub |-> "u1", org |-> ""],
     index |-> 1, status |-> StatusOK, written |-> FALSE, aborted |-> FALSE,
     claims |-> FALSE, queried |-> FALSE, ran |-> <<>>]

\* A request arrives: a fresh context, gin's default status 200, nothing written.
Arrive(route, tok) ==
    /\ gin.pc \in {"idle", "done"}
    /\ gin' = [NoRequest EXCEPT !.pc = "running", !.route = route, !.token = tok]

\* gin's loop in c.Next(): the next handler of the chain runs.
RunHandler ==
    /\ gin.pc = "running"
    /\ ~gin.aborted
    /\ gin.index <= Len(Chain(gin.route))
    /\ LET h == Chain(gin.route)[gin.index]
       IN  gin' = Ran(Handle(h, gin), h)

\* The chain is over, or was aborted: the engine sends the header if nothing has.
Finish ==
    /\ gin.pc = "running"
    /\ gin.aborted \/ gin.index > Len(Chain(gin.route))
    /\ gin' = [gin EXCEPT !.pc = "done", !.written = TRUE]

(* --------------------------- server start-up --------------------------- *)

VARIABLES
    conn        \* main up to router.Run: where it is, and Connect's locals

\* What the environment decides: whether config.LoadConfig, pgxpool.ParseConfig,
\* pgxpool.NewWithConfig and pool.Ping succeed.
Environments ==
    [cfgOk : BOOLEAN, parseOk : BOOLEAN, newOk : BOOLEAN, pingOk : BOOLEAN]

\* pool is Connect's local: "nil", "open" or "closed"; err is whether its local
\* err is non-nil; ret is what Connect returned; pinged is the pool Ping ran on.
NotStarted ==
    [pc |-> "start",
     env |-> [cfgOk |-> TRUE, parseOk |-> TRUE, newOk |-> TRUE, pingOk |-> TRUE],
     pool |-> "nil", err |-> FALSE, pinged |-> "none",
     ret |-> [pool |-> "none", err |-> FALSE], restarts |-> 0]

\* main: cfg, err := config.LoadConfig(); log.Fatal on error; clerk.SetKey;
\* then the call of database.Connect.
LoadConfig(env) ==
    /\ conn.pc = "start"
    /\ conn' = [conn EXCEPT !.env = env,
                            !.pc = IF env.cfgOk THEN "parse" ELSE "fatal"]

\* cfg, err := pgxpool.ParseConfig(connString); if err != nil { return nil, err }
ParseConfig ==
    /\ conn.pc = "parse"
    /\ conn' = IF conn.env.parseOk THEN [conn EXCEPT !.pc = "new"]
               ELSE [conn EXCEPT !.pc = "returned", !.err = TRUE,
                                 !.ret = [pool |-> "nil", err |-> TRUE]]

\* pool, err := pgxpool.NewWithConfig(ctx, cfg): a nil pool with an error when it
\* fails. The error is not looked at.
NewWithConfig ==
    /\ conn.pc = "new"
    /\ conn' = [conn EXCEPT !.pc = "ping",
                            !.pool = IF conn.env.newOk THEN "open" ELSE "nil",
                            !.err = ~conn.env.newOk]

\* err = pool.Ping(ctx): on a nil pool the method dereferences nil and panics.
Ping ==
    /\ conn.pc = "ping"
    /\ conn' = IF conn.pool = "nil"
               THEN [conn EXCEPT !.pc = "panic", !.pinged = "nil"]
               ELSE [conn EXCEPT !.pc = "check", !.pinged = conn.pool,
                                 !.err = ~conn.env.pingOk]

\* if err != nil { pool.Close(); return nil, err }; return pool, nil
ConnectReturn ==
    /\ conn.pc = "check"
    /\ conn' = IF conn.err
               THEN [conn EXCEPT !.pc = "returned", !.pool = "closed",
                                 !.ret = [pool |-> "nil", err |-> TRUE]]
               ELSE [conn EXCEPT !.pc = "returned",
                                 !.ret = [pool |-> conn.pool, err |-> FALSE]]

\* main: if err != nil { log.Fatal(...) }; defer pool.Close(); the router.
MainAfterConnect ==
    /\ conn.pc = "returned"
    /\ conn' = [conn EXCEPT !.pc = IF conn.ret.err THEN "fatal" ELSE "serving"]

\* The process has exited, by log.Fatal or by the panic, and is started again.
Restart ==
    /\ conn.pc \in {"fatal", "panic"}
    /\ conn.restarts < MaxRestarts
    /\ conn' = [NotStarted EXCEPT !.restarts = conn.restarts + 1]

(* -------------------------- client route guard ------------------------- *)

VARIABLES
    nav         \* the browser's navigation in hand, as proxy.ts sees and answers it

clientVars == <<nav>>

\* A path, as its segments: <<>> is "/".
ChooseOrganization == <<"session-tasks", "choose-organization">>

SignIn == <<"sign-in">>

Paths ==
    {<<>>, SignIn, <<"sign-in", "factor-one">>, <<"sign-up">>,
     <<"sign-up", "verify-email-address">>,
     <<"user", "1">>, <<"user", "1", "tickets">>, <<"org", "acme", "tickets">>,
     ChooseOrganization}

\* What auth() returns for the session of the request's cookies.
Sessions ==
    {[isAuthenticated |-> TRUE,  sessionStatus |-> "active"],
     [isAuthenticated |-> TRUE,  sessionStatus |-> "pending"],
     [isAuthenticated |-> FALSE, sessionStatus |-> "pending"],
     [isAuthenticated |-> FALSE, sessionStatus |-> "none"]}

\* createRouteMatcher(["/sign-in(.*)", "/", "/sign-up(.*)"])
isPublicRoute(path) ==
    path = <<>> \/ path[1] \in {"sign-in", "sign-up"}

NoNavigation ==
    [pc |-> "idle", requested |-> <<>>, path |-> <<>>,
     session |-> [isAuthenticated |-> FALSE, sessionStatus |-> "none"],
     authCalled |-> FALSE, redirects |-> 0, location |-> <<>>]

\* The browser asks for a page.
Navigate(path, session) ==
    /\ nav.pc \in {"idle", "page", "too_many_redirects"}
    /\ nav' = [NoNavigation EXCEPT !.pc = "proxy", !.requested = path, !.path = path,
                                   !.session = session]

\* The callback of clerkMiddleware for the request: a public route passes; a
\* pending, unauthenticated session is redirected to the choose-organization
\* page; otherwise auth.protect() lets an authenticated session through and
\* redirects any other to the sign-in page.
clerkMiddleware ==
    /\ nav.pc = "proxy"
    /\ nav' =
          IF isPublicRoute(nav.path) THEN [nav EXCEPT !.pc = "page"]
          ELSE IF ~nav.session.isAuthenticated /\ nav.session.sessionStatus = "pending"
               THEN [nav EXCEPT !.pc = "redirect", !.authCalled = TRUE,
                                !.location = ChooseOrganization]
          ELSE IF nav.session.isAuthenticated
               THEN [nav EXCEPT !.pc = "page", !.authCalled = TRUE]
          ELSE [nav EXCEPT !.pc = "redirect", !.authCalled = TRUE, !.location = SignIn]

\* The browser follows the redirect with the same cookies, and gives up after
\* MaxRedirects of them in a row.
FollowRedirect ==
    /\ nav.pc = "redirect"
    /\ nav' = IF nav.redirects = MaxRedirects
              THEN [nav EXCEPT !.pc = "too_many_redirects"]
              ELSE [nav EXCEPT !.pc = "proxy", !.path = nav.location,
                               !.redirects = @ + 1]

(* --------------------------- the specifications ------------------------ *)

vars == <<users, now, nDeliv, resp, seen, applied, inputs, jit, gin, nav, conn>>

Init ==
    /\ users = <<>>
    /\ now = 0
    /\ nDeliv = 0
    /\ resp = NoResp
    /\ seen = {}
    /\ applied = {}
    /\ inputs = [s \in Subjects \cup {""} |-> {}]
    /\ jit = [c \in Callers |-> Idle]
    /\ gin = NoRequest
    /\ nav = NoNavigation
    /\ conn = NotStarted

\* The database clock advances.
Tick ==
    /\ now < MaxClock
    /\ now' = now + 1
    /\ UNCHANGED <<users, nDeliv, resp, seen, applied, inputs, jit, gin, clientVars, conn>>

\* The provider delivers an event, sound or faulty.
Webhook ==
    /\ nDeliv < MaxDeliveries
    /\ \E e \in EventIds, fault \in Faults :
            ClerkWebhookHandler(Delivery(e, fault)) /\ Answer(Delivery(e, fault))
    /\ UNCHANGED <<jit, gin, clientVars, conn>>

Next == Webhook \/ Tick

\* The webhook ingress alone, under the database clock.
Spec == Init /\ [][Next]_vars

\* The provider delivers a sound user event while JIT calls are in flight.
JitWebhook ==
    /\ nDeliv < MaxDeliveries
    /\ \E e \in {"e1", "e2", "e3", "e4"} : ClerkWebhookHandler(Delivery(e, "none"))
    /\ UNCHANGED <<resp, seen, applied, jit, gin, clientVars, conn>>

Lookup ==
    /\ \E c \in Callers, s \in Subjects, dbOk \in BOOLEAN : JitLookup(c, s, dbOk)
    /\ UNCHANGED <<gin, clientVars, conn>>

FetchOk ==
    /\ \E c \in Callers : \E u \in ProviderProfiles(jit[c].subject) : JitFetchOk(c, u)
    /\ UNCHANGED <<gin, clientVars, conn>>

FetchErr ==
    /\ \E c \in Callers : JitFetchErr(c)
    /\ UNCHANGED <<gin, clientVars, conn>>

Create ==
    /\ \E c \in Callers, dbOk \in BOOLEAN : JitCreate(c, dbOk)
    /\ UNCHANGED <<gin, clientVars, conn>>

NextJit == JitWebhook \/ Lookup \/ FetchOk \/ FetchErr \/ Create

\* Webhook deliveries and GetOrCreateUser callers, interleaved. No statement and
\* no lookup branches on a timestamp's value, only on deleted_at being NULL, so
\* the clock stands still here.
SpecJit == Init /\ [][NextJit]_vars

Cancel ==
    /\ \E c \in Callers : JitCancel(c)
    /\ UNCHANGED <<gin, clientVars, conn>>

\* The next step of caller c's call, whichever it is.
JitStep(c) ==
    /\ \/ \E u \in ProviderProfiles(jit[c].subject) : JitFetchOk(c, u)
       \/ JitFetchErr(c)
       \/ \E dbOk \in BOOLEAN : JitCreate(c, dbOk)
    /\ UNCHANGED <<gin, clientVars, conn>>

NextCancel == Lookup \/ FetchOk \/ FetchErr \/ Create \/ Cancel

\* GetOrCreateUser callers whose clients may disconnect. A call in flight is a
\* running goroutine: it takes its next step sooner or later.
SpecCancel ==
    Init /\ [][NextCancel]_vars /\ \A c \in Callers : WF_vars(JitStep(c))

serverVars == <<users, now, nDeliv, resp, seen, applied, inputs, jit, gin, conn>>

Visit ==
    /\ \E path \in Paths, session \in Sessions : Navigate(path, session)
    /\ UNCHANGED serverVars

Proxy ==
    /\ clerkMiddleware
    /\ UNCHANGED serverVars

Follow ==
    /\ FollowRedirect
    /\ UNCHANGED serverVars

NextProxy == Visit \/ Proxy \/ Follow

\* One navigation after another through the client's proxy.ts.
SpecProxy == Init /\ [][NextProxy]_vars

appVars == <<users, now, nDeliv, resp, seen, applied, inputs, jit, gin, nav>>

Start ==
    /\ \E env \in Environments : LoadConfig(env)
    /\ UNCHANGED appVars

Parse ==
    /\ ParseConfig
    /\ UNCHANGED appVars

NewPool ==
    /\ NewWithConfig
    /\ UNCHANGED appVars

PingPool ==
    /\ Ping
    /\ UNCHANGED appVars

Return ==
    /\ ConnectReturn
    /\ UNCHANGED appVars

Serve ==
    /\ MainAfterConnect
    /\ UNCHANGED appVars

StartAgain ==
    /\ Restart
    /\ UNCHANGED appVars

NextConnect == Start \/ Parse \/ NewPool \/ PingPool \/ Return \/ Serve \/ StartAgain

\* main from its start to router.Run, through database.Connect.
SpecConnect == Init /\ [][NextConnect]_vars

Request ==
    /\ \E route \in Routes, tok \in Tokens : Arrive(route, tok)
    /\ UNCHANGED <<users, now, nDeliv, resp, seen, applied, inputs, jit, clientVars, conn>>

Handler ==
    /\ RunHandler
    /\ UNCHANGED <<users, now, nDeliv, resp, seen, applied, inputs, jit, clientVars, conn>>

Respond ==
    /\ Finish
    /\ UNCHANGED <<users, now, nDeliv, resp, seen, applied, inputs, jit, clientVars, conn>>

\* The users table changes under the requests: a sound user event is delivered.
GateWebhook ==
    /\ nDeliv < MaxDeliveries
    /\ \E e \in {"e1", "e2", "e3", "e4"} : ClerkWebhookHandler(Delivery(e, "none"))
    /\ UNCHANGED <<resp, seen, applied, jit, gin, clientVars, conn>>

NextGate == Request \/ Handler \/ Respond \/ GateWebhook

\* One request after another through the /api group's handler chains, while
\* webhook deliveries fill the users table.
SpecGate == Init /\ [][NextGate]_vars

(* ------------------------------- claims -------------------------------- *)

\* A step that handles one more webhook delivery.
Delivered == nDeliv' = nDeliv + 1

TypeOf(d) == EventOf(d.evt).type

\* The subject a delivery's data names.
SubjectOf(d) == DecodeUserData(EventOf(d.evt)).id

\* The mutable fields a user event carries.
FieldsOf(env) ==
    LET u == DecodeUserData(env)
    IN  <<getPrimaryEmail(u), WebhookName(u), u.image_url>>

IsUpsert(env) == env.jsonOk /\ env.dataOk /\ env.type \in {"user.created", "user.updated"}

InSeq(x, seq) == \E i \in DOMAIN seq : seq[i] = x

\* C1: a delivery whose signature does not verify is answered 401 and leaves the
\* users table as it was, whatever event it carries.
C1_BadSignatureRejected ==
    [][(Delivered /\ ~SigOk(resp'.d))
         => (resp'.status = StatusUnauthorized /\ users' = users)]_vars

\* C1 witness: a forged user.updated for a subject the table holds was answered 401.
C1_Witness ==
    /\ ~SigOk(resp.d)
    /\ resp.status = StatusUnauthorized
    /\ TypeOf(resp.d) = "user.updated"
    /\ RowsOf(users, SubjectOf(resp.d)) # {}

\* C2: under webhook events and JIT calls in any interleaving, the table never
\* holds two rows of one subject, and a row, once there, stays there with its
\* subject.
C2_OneRecordNeverRemoved ==
    [][/\ \A i \in DOMAIN users' : Cardinality(RowsOf(users', users'[i].clerk_id)) = 1
       /\ \A i \in DOMAIN users :
             i \in DOMAIN users' /\ users'[i].clerk_id = users[i].clerk_id]_vars

\* C2 witness: a subject created by a JIT call, then deleted by a webhook, is still
\* in the table, tombstoned, beside another subject's row.
C2_Witness ==
    /\ \E c \in Callers : jit[c].result = "created" /\ jit[c].subject = "u1"
    /\ \E i \in RowsOf(users, "u1") : users[i].deleted_at # NULL
    /\ RowsOf(users, "u2") # {}

\* What idempotency compares: each row's subject, mutable fields and whether it
\* is tombstoned.
Projection(tbl) ==
    [i \in DOMAIN tbl |-> <<tbl[i].clerk_id, Mutable(tbl[i]), tbl[i].deleted_at # NULL>>]

\* C3: from the table as it stands, an upsert event applied twice leaves exactly
\* one row of its subject, in the state one application leaves it in.
C3_UpsertTwiceIsOnce ==
    \A e \in EventIds : \A t \in now..MaxClock :
        IsUpsert(EventOf(e)) =>
            LET once  == ApplyEvent(users, EventOf(e), now)
                twice == ApplyEvent(once, EventOf(e), t)
            IN  /\ Cardinality(RowsOf(twice, DecodeUserData(EventOf(e)).id)) = 1
                /\ Projection(twice) = Projection(once)

\* C4: a redelivery, its signature valid, of an event whose earlier delivery was
\* answered 200 and applied to the table is answered 200 and writes nothing: the
\* event has one side effect, not two.
C4_RedeliveryWritesNothing ==
    (resp.dup /\ resp.redo /\ resp.d.fault = "none")
        => (resp.status = StatusOK /\ ~resp.wrote)

\* C5: an upsert event for a tombstoned subject clears deleted_at and sets the
\* mutable fields to the event's.
C5_UpsertResurrects ==
    [][(Delivered /\ resp'.d.fault = "none" /\ IsUpsert(EventOf(resp'.d.evt)))
         => \A i \in RowsOf(users, SubjectOf(resp'.d)) :
               users[i].deleted_at # NULL
                 => /\ users'[i].deleted_at = NULL
                    /\ Mutable(users'[i]) = FieldsOf(EventOf(resp'.d.evt))]_vars

\* A sound user.deleted delivery.
DeleteDelivered == Delivered /\ resp'.d.fault = "none" /\ TypeOf(resp'.d) = "user.deleted"

C7_OneFetchPerSubject ==
    \A s \in Subjects :
        /\ Cardinality({c \in Callers : jit[c].pc = "create" /\ jit[c].subject = s}) <= 1
        /\ Cardinality(RowsOf(users, s)) <= 1

BadToken(tok) == ~(tok.present /\ tok.wellFormed /\ tok.sigOk /\ ~tok.expired)

C10_RequireOrgGate ==
    (gin.route = "/api/orgs/:slug/tickets" /\ gin.claims /\ InSeq("RequireOrg", gin.ran))
        => IF gin.token.org = ""
           THEN /\ gin.status = StatusForbidden
                /\ gin.aborted
                /\ ~InSeq("listTicketsHandler", gin.ran)
           ELSE /\ ~gin.aborted
                /\ gin.pc = "done" => InSeq("listTicketsHandler", gin.ran)

\* C10 witness: verified claims without an organization were answered 403.
C10_Witness ==
    /\ gin.pc = "done" /\ gin.route = "/api/orgs/:slug/tickets"
    /\ gin.claims /\ gin.token.org = ""
    /\ gin.status = StatusForbidden

\* C11: on an org-scoped route a verified token without an organization is
\* answered 403 by RequireOrg before the route handler, the only code of the
\* chain that holds the pool, has run: nothing was read, written or fetched for
\* the request, whether or not the users table holds the token's subject.
C11_OrgCheckRunsFirst ==
    (gin.route = "/api/orgs/:slug/tickets" /\ Accepts(gin.token) /\ gin.token.org = "")
        => /\ ~gin.queried
           /\ ~InSeq("listTicketsHandler", gin.ran)
           /\ gin.pc = "done" => gin.status = StatusForbidden

\* C11 witness: such a request was answered 403 while the table held an active
\* row of its subject.
C11_Witness ==
    /\ gin.pc = "done" /\ gin.route = "/api/orgs/:slug/tickets"
    /\ Accepts(gin.token) /\ gin.token.org = ""
    /\ gin.status = StatusForbidden /\ ~gin.queried
    /\ GetUserByClerkID(users, gin.token.sub) # {}

\* C12: on an org-scoped route a request whose context carries no organization id
\* is answered 403 and never reaches the route handler, whether its token
\* verified without an organization, failed verification, or was absent.
C12_NoOrgIsForbidden ==
    (/\ gin.pc = "done"
     /\ gin.route = "/api/orgs/:slug/tickets"
     /\ ~Accepts(gin.token) \/ gin.token.org = "")
        => /\ gin.status = StatusForbidden
           /\ ~InSeq("listTicketsHandler", gin.ran)

\* C12 witness: a token naming an organization, its signature not verifying, was
\* answered 403 by RequireOrg on the org-scoped route.
C12_Witness ==
    /\ gin.pc = "done" /\ gin.route = "/api/orgs/:slug/tickets"
    /\ gin.token.present /\ gin.token.wellFormed /\ ~gin.token.sigOk
    /\ gin.token.org = "org_1"
    /\ ~gin.claims /\ InSeq("RequireOrg", gin.ran)
    /\ gin.status = StatusForbidden

\* The email of a provider profile: its primary address, and its first address
\* when the primary id names none.
ProfileEmail(u) == getPrimaryEmail(u)

\* C14: when a GetOrCreateUser call that found no row and fetched the subject's
\* profile completes, the subject has one row, active, with the profile's email,
\* and the call returns it; and a call that looks the subject up while its
\* active row is there returns it without a fetch.
C14_MissedWebhookRepaired ==
    [][\A c \in Callers :
          /\ (jit[c].pc = "create" /\ jit'[c].result = "created")
                => /\ Cardinality(RowsOf(users', jit[c].subject)) = 1
                   /\ \A i \in RowsOf(users', jit[c].subject) :
                         /\ users'[i].deleted_at = NULL
                         /\ users'[i].email = ProfileEmail(jit[c].profile)
          /\ \A s \in Subjects :
                (JitLookup(c, s, TRUE) /\ GetUserByClerkID(users, s) # {})
                    => (jit'[c].pc = "done" /\ jit'[c].result = "found")]_vars

\* C15: a delivery whose svix-timestamp is outside the tolerance is answered 400
\* and leaves the users table as it was.
C15_StaleTimestampIs400 ==
    [][(Delivered /\ ~TsFresh(resp'.d))
         => (resp'.status = StatusBadRequest /\ users' = users)]_vars

\* The event types the handler has a statement for.
UserTypes == {"user.created", "user.updated", "user.deleted"}

\* The delivery got as far as pool.Exec, and pool.Exec returned an error.
WriteFailed(d) ==
    /\ BodyOk(d) /\ SecretOk(d) /\ Verify(d)
    /\ EventOf(d.evt).jsonOk /\ TypeOf(d) \in UserTypes
    /\ ~DbOk(d)

\* C16: a verified delivery whose statement fails is answered 500 and leaves the
\* table as it was; a delivery answered 200 had no failed statement.
C16_StorageFailureIs500 ==
    [][Delivered
         => /\ WriteFailed(resp'.d)
                => (resp'.status = StatusInternalServerError /\ users' = users)
            /\ resp'.status = StatusOK => ~WriteFailed(resp'.d)]_vars

\* C16 witness: the UPDATE of a user.updated for a subject the table holds failed,
\* and the delivery was answered 500 with the row untouched.
C16_Witness ==
    /\ WriteFailed(resp.d)
    /\ TypeOf(resp.d) = "user.updated"
    /\ RowsOf(users, SubjectOf(resp.d)) # {}
    /\ resp.status = StatusInternalServerError /\ ~resp.wrote

\* The table reflects a user event: an upsert's fields are in the subject's row,
\* a delete's subject has no row that is not tombstoned.
Reflects(tbl, env) ==
    LET cid == DecodeUserData(env).id
    IN  IF env.type = "user.deleted"
        THEN \A i \in RowsOf(tbl, cid) : tbl[i].deleted_at # NULL
        ELSE \E i \in RowsOf(tbl, cid) : Mutable(tbl[i]) = FieldsOf(env)

\* A well-formed user event: the envelope and its data decode.
WellFormed(env) == env.jsonOk /\ env.dataOk /\ env.type \in UserTypes

\* C17: a well-formed user event whose delivery is rejected is not answered 200,
\* and one that is verified, first seen and answered 200 is reflected by the table.
C17_NoSilentDrop ==
    [][(Delivered /\ WellFormed(EventOf(resp'.d.evt)))
         => /\ resp'.d.fault # "none" => resp'.status # StatusOK
            /\ (resp'.d.fault = "none" /\ resp'.d.evt \notin seen /\ resp'.status = StatusOK)
                  => Reflects(users', EventOf(resp'.d.evt))]_vars

\* C18: a sound upsert event, user.created or user.updated, seen for the first
\* time, for a subject without a row leaves the subject with one active row
\* whose created_at and updated_at are both the time of the event.
C18_UpsertInsertsWhenMissing ==
    [][(/\ Delivered /\ resp'.d.fault = "none" /\ resp'.d.evt \notin seen
        /\ IsUpsert(EventOf(resp'.d.evt))
        /\ RowsOf(users, SubjectOf(resp'.d)) = {})
         => /\ Cardinality(RowsOf(users', SubjectOf(resp'.d))) = 1
            /\ \A i \in RowsOf(users', SubjectOf(resp'.d)) :
                  /\ users'[i].deleted_at = NULL
                  /\ users'[i].created_at = now
                  /\ users'[i].updated_at = now]_vars

\* C19: a sound upsert event, user.created or user.updated, seen for the first
\* time, for a subject with an active row leaves the row with the event's email,
\* name and avatar.
C19_UpsertOverwritesActive ==
    [][(/\ Delivered /\ resp'.d.fault = "none" /\ resp'.d.evt \notin seen
        /\ IsUpsert(EventOf(resp'.d.evt)))
         => \A i \in GetUserByClerkID(users, SubjectOf(resp'.d)) :
               Mutable(users'[i]) = FieldsOf(EventOf(resp'.d.evt))]_vars

\* C20: a sound delete event for a subject without a row is answered 200 and
\* leaves the whole table as it was.
C20_DeleteMissingIsNoop ==
    [][(DeleteDelivered /\ RowsOf(users, SubjectOf(resp'.d)) = {})
         => (users' = users /\ resp'.status = StatusOK)]_vars

\* C20 witness: a delete for a subject without a row was answered 200 while the
\* table held another subject's row, untouched.
C20_Witness ==
    /\ TypeOf(resp.d) = "user.deleted" /\ resp.d.fault = "none"
    /\ resp.status = StatusOK /\ ~resp.wrote
    /\ RowsOf(users, SubjectOf(resp.d)) = {}
    /\ \E i \in DOMAIN users : users[i].deleted_at = NULL

\* The rows of every subject but cid are what they were.
OthersUnchanged(cid) ==
    \A i \in DOMAIN users :
        users[i].clerk_id # cid => (i \in DOMAIN users' /\ users'[i] = users[i])

\* C21: a webhook event or a JIT insert for one subject leaves every row of every
\* other subject as it was; and no writer waits for another subject's writer: a
\* caller about to insert can do so, and a delivery can be handled, whatever
\* calls for other subjects are in flight.
C21_OtherSubjectsUntouched ==
    [][/\ \A e \in {"e1", "e2", "e3", "e4"} :
             ClerkWebhookHandler(Delivery(e, "none"))
                => OthersUnchanged(SubjectOf(Delivery(e, "none")))
       /\ \A c \in Callers :
             (jit[c].pc = "create" /\ jit'[c].pc = "done")
                => OthersUnchanged(jit[c].subject)
       /\ \A c \in Callers :
             jit[c].pc = "create" => ENABLED JitCreate(c, TRUE)
       /\ nDeliv < MaxDeliveries
             => \A e \in {"e1", "e2", "e3", "e4"} :
                   ENABLED ClerkWebhookHandler(Delivery(e, "none"))]_vars

\* C21 witness: u1's row was updated by a webhook while u2 had a row and a call
\* for u2 stood between its fetch and its insert.
C21_Witness ==
    /\ \E i \in RowsOf(users, "u1") : Mutable(users[i]) = FieldsOf(EventOf("e2"))
    /\ \E i \in RowsOf(users, "u2") : Mutable(users[i]) = FieldsOf(EventOf("e4"))
    /\ \E c \in Callers : jit[c].pc = "create" /\ jit[c].subject = "u2"

\* C22: a delivery that writes a row, by inserting it, overwriting its fields or
\* tombstoning it, leaves the row's updated_at at the time of the write, and no
\* delivery moves a row's updated_at back.
C22_UpdatedAtAdvances ==
    [][Delivered
         => \A i \in DOMAIN users' :
               IF i \notin DOMAIN users THEN users'[i].updated_at = now
               ELSE /\ users'[i] # users[i] => users'[i].updated_at = now
                    /\ users'[i].updated_at >= users[i].updated_at]_vars

\* The profile as a user.created event carries it: a JSON null decodes to "".
AsUserData(u) ==
    [u EXCEPT !.primary_email_address_id = IF @ = NilStr THEN "" ELSE @]

\* The fields the user.created case stores for a profile.
WebhookFields(u) ==
    <<getPrimaryEmail(AsUserData(u)), WebhookName(AsUserData(u)), AsUserData(u).image_url>>

\* C23: for a subject without a row, GetOrCreateUser on a fetched profile stores
\* the row a user.created event carrying the same profile would store, whatever
\* the profile's primary id.
C23_JitEqualsWebhook ==
    [][\A c \in Callers :
          /\ jit[c].pc = "fetch" => jit'[c].result # "panic"
          /\ (/\ jit[c].pc = "create" /\ jit'[c].result = "created"
              /\ RowsOf(users, jit[c].subject) = {})
                => users' = InsertDoNothing(users, jit[c].subject,
                                            WebhookFields(jit[c].profile)[1],
                                            WebhookFields(jit[c].profile)[2],
                                            WebhookFields(jit[c].profile)[3], now)]_vars

C26_CancelledFetchCompletes ==
    \A c \in Callers :
        jit[c].cancelled ~> (GetUserByClerkID(users, jit[c].subject) # {})

\* The delivery passed every check up to the decoding of the envelope.
Verified(d) == BodyOk(d) /\ SecretOk(d) /\ Verify(d)

\* The envelope does not decode, or it is a user event whose data does not decode
\* or names no subject.
Undecodable(env) ==
    \/ ~env.jsonOk
    \/ env.type \in UserTypes /\ (~env.dataOk \/ DecodeUserData(env).id = "")

\* C27: a verified delivery whose envelope or data cannot be decoded, or names no
\* subject, is answered 400 and leaves the users table as it was; and the table
\* never holds a row with an empty clerk_id.
C27_UndecodableIs400 ==
    [][/\ (Delivered /\ Verified(resp'.d) /\ DbOk(resp'.d)
           /\ Undecodable(EventOf(resp'.d.evt)))
             => (resp'.status = StatusBadRequest /\ users' = users)
       /\ RowsOf(users', "") = {}]_vars

\* C28: a request the Clerk middleware rejects is answered by that middleware
\* alone, no later handler of its chain having run; of a request it accepts no
\* handler runs twice, and the handler after the middleware has run once the
\* response is complete.
C28_RejectedChainStops ==
    /\ (gin.pc = "done" /\ ~Accepts(gin.token))
          => /\ gin.ran = <<"ClerkAuthMiddleware">>
             /\ gin.status = ClerkRejectStatus(gin.token)
    /\ \A i, j \in DOMAIN gin.ran : gin.ran[i] = gin.ran[j] => i = j
    /\ (gin.pc = "done" /\ Accepts(gin.token))
          => InSeq(Chain(gin.route)[2], gin.ran)

\* The session is unauthenticated with status pending.
Pending(session) == ~session.isAuthenticated /\ session.sessionStatus = "pending"

\* C29: a public path passes without a call of auth(); a non-public path asked
\* for by a pending, unauthenticated session is redirected to the
\* choose-organization page, and that page is reached without another
\* redirect: no navigation is redirected twice.
C29_NoRedirectLoop ==
    /\ (isPublicRoute(nav.requested) /\ nav.pc \in {"redirect", "page"})
          => (nav.pc = "page" /\ ~nav.authCalled /\ nav.redirects = 0)
    /\ (~isPublicRoute(nav.requested) /\ Pending(nav.session))
          => /\ nav.pc = "redirect" => nav.location = ChooseOrganization
             /\ nav.redirects = 1 => (nav.path = ChooseOrganization /\ nav.pc # "redirect")
             /\ nav.redirects <= 1
             /\ nav.pc # "too_many_redirects"

\* C30: Connect returns a pool with a nil error only when the pool was created
\* and its ping succeeded; when parsing, creating or pinging fails it returns
\* a nil pool with an error, having closed any pool it created; and it never
\* calls a method on a pool whose creation failed.
C30_ConnectContract ==
    /\ (conn.ret.pool \notin {"none", "nil"} /\ ~conn.ret.err)
          => (conn.env.newOk /\ conn.env.pingOk /\ conn.ret.pool = "open")
    /\ (conn.pc \notin {"start", "fatal", "parse", "new", "ping", "check"}
        /\ ~(conn.env.parseOk /\ conn.env.newOk /\ conn.env.pingOk))
          => (conn.ret = [pool |-> "nil", err |-> TRUE] /\ conn.pool # "open")
    /\ conn.pinged # "nil"
    /\ conn.pc # "panic"

====
